---- MODULE Spec2Model ----
(***************************************************************************)
(* A model of snodelist.c: the run-length task-count decoder               *)
(* (task_count_init / task_count_next), the machine-file line formatter    *)
(* (print_machinefile) and the driver (main).                              *)
(*                                                                         *)
(* C strings are sequences of one-character strings; a pointer into a      *)
(* string is its 0-based byte offset; reading the terminating NUL byte     *)
(* yields NUL.  stdout is the sequence of characters written so far.       *)
(***************************************************************************)
EXTENDS Integers, Sequences, FiniteSets, TLC

VARIABLES
  pc,                  \* position of the program
  status,              \* <<>> while the process runs, then <<its exit status>>
  nopts,               \* options getopt_long has returned so far
  mode,                \* main: snodelist_mode
  do_uniq,             \* main: do_uniq
  no_repeats,          \* main: no_repeats
  delimiter,           \* main: delimiter
  machinefile_format,  \* main: machinefile_format
  hostlist,            \* main: the hostlist handle (0 is NULL)
  hosts,               \* the host names held by the handle hostlist
  created,             \* number of slurm_hostlist_create calls so far
  destroyed,           \* the handles passed to slurm_hostlist_destroy, in order
  env_nodes,           \* environment: SLURM_JOB_NODELIST, <<>> unset or <<v>>
  env_tasks,           \* environment: SLURM_TASKS_PER_NODE, <<>> unset or <<v>>
  tc,                  \* task_count_t
  has_count,           \* print_machinefile: has_count
  out,                 \* stdout
  err,                 \* stderr: one record per ERROR line
  results,             \* what each task_count_next call returned, in order
  rendered,            \* the (host, task count) pairs rendering was started for
  entries              \* the run-length entries env_tasks was written from

vars == <<pc, status, nopts, mode, do_uniq, no_repeats, delimiter,
          machinefile_format, hostlist, hosts, created, destroyed, env_nodes,
          env_tasks, tc, has_count, out, err, results, rendered, entries>>

--------------------------------------------------------------------------
(* Bounds of the model *)

MaxSpecLen == 6     \* longest arbitrary task-count string (decoder alone)
MaxEntries == 2     \* most run-length entries of a well-formed string
MaxRepeat == 2      \* largest repeat count of a well-formed entry
MaxHosts == 3       \* most hosts of the node list
MaxFmtLen == 5      \* longest arbitrary format template
MaxLoopLen == 5     \* longest arbitrary task-count string (with the loop)
MaxOpts == 3        \* most options on the command line
MaxAfter == 2       \* failing task_count_next calls made on one decoder

--------------------------------------------------------------------------
(* C strings *)

NUL == "NUL"

\* *(s + i)
At(s, i) == IF i >= 0 /\ i < Len(s) THEN s[i + 1] ELSE NUL

Digits == <<"0", "1", "2", "3", "4", "5", "6", "7", "8", "9">>

IsDigit(c) == \E d \in 1..10 : Digits[d] = c

DigitVal(c) == (CHOOSE d \in 1..10 : Digits[d] = c) - 1

IsSpace(c) == c \in {" ", "\t", "\n"}

\* the strings over the characters cs of length at most n
Strings(cs, n) == UNION {[1..k -> cs] : k \in 0..n}

RECURSIVE SkipSpace(_, _)
SkipSpace(s, p) == IF IsSpace(At(s, p)) THEN SkipSpace(s, p + 1) ELSE p

RECURSIVE ScanDigits(_, _, _)
\* the digits from offset p on, added to the value acc
ScanDigits(s, p, acc) ==
  IF IsDigit(At(s, p))
    THEN ScanDigits(s, p + 1, 10 * acc + DigitVal(At(s, p)))
    ELSE [val |-> acc, end |-> p]

\* strtol(s + p, &end, 10): white space, an optional sign, digits.  Without a
\* digit nothing is converted: the value is 0 and end is p.  (The strings of
\* the model are too short to overflow a long.)
Strtol(s, p) ==
  LET q == SkipSpace(s, p)
      neg == At(s, q) = "-"
      d == IF At(s, q) \in {"-", "+"} THEN q + 1 ELSE q
      r == ScanDigits(s, d, 0)
  IN  IF r.end = d
        THEN [val |-> 0, end |-> p]
        ELSE [val |-> IF neg THEN 0 - r.val ELSE r.val, end |-> r.end]

RECURSIVE DecDigits(_)
DecDigits(n) ==
  IF n < 10 THEN <<Digits[n + 1]>>
            ELSE DecDigits(n \div 10) \o <<Digits[(n % 10) + 1]>>

\* fprintf(stdout, "%d", n)
Dec(n) == IF n < 0 THEN <<"-">> \o DecDigits(0 - n) ELSE DecDigits(n)

RECURSIVE StrStr(_, _, _)
\* strstr(s + p, pat): the offset of the first occurrence, -1 for NULL
StrStr(s, p, pat) ==
  IF p + Len(pat) > Len(s) THEN -1
  ELSE IF SubSeq(s, p + 1, p + Len(pat)) = pat THEN p
  ELSE StrStr(s, p + 1, pat)

--------------------------------------------------------------------------
(* task_count_t *)

\* task_count_init
TaskCountInit(str) ==
  [task_count_str |-> str, cur_ptr |-> 0, value |-> -1, count |-> 0]

NoError == "none"

\* one failing return of task_count_next: what it leaves in tc, and the
\* message it writes
TcFail(t, kind, off) ==
  [tc |-> t, ret |-> -1, kind |-> kind, off |-> off]

\* the tail of task_count_next: tc->count--; return tc->value
TcReturn(t) ==
  [tc |-> [t EXCEPT !.count = t.count - 1], ret |-> t.value,
   kind |-> NoError, off |-> 0]

\* a mutation of TcRepeat: the "," after the ")" is not passed
TcRepeatKeepsComma(t, e) ==
  IF At(t.task_count_str, e) = "x"
    THEN LET s == t.task_count_str
             r == Strtol(s, e + 1)
         IN  IF r.val > 0 /\ r.end > e + 1
               THEN LET t2 == [t EXCEPT !.count = r.val]
                        a == r.end
                    IN  IF At(s, a) = ")"
                           /\ (At(s, a + 1) = "," \/ At(s, a + 1) = NUL)
                          THEN TcReturn([t2 EXCEPT !.cur_ptr = a + 1])
                          ELSE TcFail(t2, "UnexpectedCharacter", a)
               ELSE TcFail(t, "InvalidRepeat", e + 1)
    ELSE TcFail(t, "InvalidRepeat", e)

\* the "(x" branch of task_count_next; e is the offset after the "("
TcRepeat(t, e) ==
  IF At(t.task_count_str, e) = "x"
    THEN LET s == t.task_count_str
             r == Strtol(s, e + 1)
         IN  IF r.val > 0 /\ r.end > e + 1
               THEN LET t2 == [t EXCEPT !.count = r.val]
                        a == r.end
                    IN  IF At(s, a) = ")"
                           /\ (At(s, a + 1) = "," \/ At(s, a + 1) = NUL)
                          THEN TcReturn([t2 EXCEPT !.cur_ptr =
                                 IF At(s, a + 1) # NUL THEN a + 2 ELSE a + 1])
                          ELSE TcFail(t2, "UnexpectedCharacter", a)
               ELSE TcFail(t, "InvalidRepeat", e + 1)
    ELSE TcFail(t, "InvalidRepeat", e)

\* task_count_next
TaskCountNext(t) ==
  IF t.count = 0
    THEN LET s == t.task_count_str
         IN  IF At(s, t.cur_ptr) # NUL
               THEN LET r == Strtol(s, t.cur_ptr)
                        t1 == [t EXCEPT !.value = r.val]
                    IN  IF r.end > t.cur_ptr
                          THEN CASE At(s, r.end) = "(" -> TcRepeat(t1, r.end + 1)
                                 [] At(s, r.end) = "," ->
                                      TcReturn([t1 EXCEPT !.count = 1,
                                                          !.cur_ptr = r.end + 1])
                                 [] At(s, r.end) = NUL ->
                                      TcReturn([t1 EXCEPT !.count = 1,
                                                          !.cur_ptr = r.end])
                                 [] OTHER -> TcFail(t1, "UnexpectedCharacter", r.end)
                          ELSE TcFail(t, "InvalidInteger", t.cur_ptr)
               ELSE TcFail(t, "Exhausted", 0)
    ELSE TcReturn(t)

--------------------------------------------------------------------------
(* print_machinefile: the classification of the format *)

RECURSIVE FindClose(_, _)
\* while ( *s && (*s != ']') ) s++
FindClose(f, p) ==
  IF At(f, p) = NUL \/ At(f, p) = "]" THEN p ELSE FindClose(f, p + 1)

RECURSIVE ScanDelimited(_, _)
\* the loop over strstr(s, "%[") of print_machinefile
ScanDelimited(f, p) ==
  LET s == StrStr(f, p, <<"%", "[">>)
  IN  IF s = -1 THEN FALSE
      ELSE LET q == FindClose(f, s + 2)
           IN  IF At(f, q) = "]"
                 THEN IF At(f, q + 1) \in {"c", "C"} THEN TRUE
                      ELSE ScanDelimited(f, q + 1)
                 ELSE ScanDelimited(f, q)

\* the value print_machinefile gives has_count
HasCount(f) ==
  IF StrStr(f, 0, <<"%", "c">>) # -1 \/ StrStr(f, 0, <<"%", "C">>) # -1
    THEN TRUE
    ELSE ScanDelimited(f, 0)

--------------------------------------------------------------------------
(* print_machinefile: the two renderings of one host *)

\* what a rendering wrote, and whether it ended without exit(EINVAL)
Wrote(text, r) == [out |-> text \o r.out, ok |-> r.ok]

\* a mutation of Omitted: a count of 1 is written
OmittedBelowOne(task_count) == task_count < 1

\* case 'C': if ( task_count <= 1 )
Omitted(task_count) == task_count <= 1

RECURSIVE RenderSingle(_, _, _, _)
\* the loop over format_ptr of the has_count || no_repeats branch, from the
\* offset p on, for the host node_name and its task_count
RenderSingle(f, p, node_name, task_count) ==
  LET c == At(f, p)
      d == At(f, p + 1)
      Rest(q) == RenderSingle(f, q, node_name, task_count)
  IN  IF c = NUL THEN [out |-> <<>>, ok |-> TRUE]
      ELSE IF c # "%" THEN Wrote(<<c>>, Rest(p + 1))
      ELSE CASE d = "%" -> Wrote(<<"%">>, Rest(p + 2))
             [] d = "h" -> Wrote(node_name, Rest(p + 2))
             [] d = "C" -> IF Omitted(task_count)
                             THEN Rest(p + 2)
                             ELSE Wrote(Dec(task_count), Rest(p + 2))
             [] d = "c" -> Wrote(Dec(task_count), Rest(p + 2))
             [] d = "[" ->
                  LET q == FindClose(f, p + 2)
                      delim == SubSeq(f, p + 3, q)
                      e == At(f, q + 1)
                  IN  IF At(f, q) = "]"
                        THEN CASE e = "C" /\ Omitted(task_count) -> Rest(q + 2)
                               [] e \in {"c", "C"} /\ ~(e = "C" /\ Omitted(task_count)) ->
                                    Wrote(delim \o Dec(task_count), Rest(q + 2))
                               [] e = NUL -> Rest(q + 1)
                               [] OTHER -> Rest(q + 2)
                        ELSE [out |-> <<>>, ok |-> FALSE]
             [] d = NUL -> Rest(p + 1)
             [] OTHER -> Rest(p + 2)

RECURSIVE RenderRepeat(_, _, _)
\* the loop over format_ptr of the repeat branch: one repetition
RenderRepeat(f, p, node_name) ==
  LET c == At(f, p)
      d == At(f, p + 1)
  IN  IF c = NUL THEN <<>>
      ELSE IF c # "%" THEN <<c>> \o RenderRepeat(f, p + 1, node_name)
      ELSE CASE d = "%" -> <<"%">> \o RenderRepeat(f, p + 2, node_name)
             [] d = "h" -> node_name \o RenderRepeat(f, p + 2, node_name)
             [] d = NUL -> RenderRepeat(f, p + 1, node_name)
             [] OTHER -> RenderRepeat(f, p + 2, node_name)

RECURSIVE Times(_, _)
\* while ( task_count-- ): the text written n times
Times(text, n) == IF n <= 0 THEN <<>> ELSE text \o Times(text, n - 1)

--------------------------------------------------------------------------
(* The inputs of the model *)

\* errno.h: the status of exit(EINVAL)
EINVAL == 22

DefaultFormat == <<"%", "h", "%", "[", ":", "]", "C">>
DefaultDelimiter == <<"\n">>

\* the names the host-list library yields for a node list of n hosts
HostNames(n) == [i \in 1..n |-> <<"n", Digits[i]>>]

NodeLists == {HostNames(n) : n \in 0..MaxHosts}

\* the characters of the arbitrary task-count strings and formats
SpecChars == {"0", "2", "(", "x", ")", ",", "-", "z"}
LoopChars == {"0", "2", "(", "x", ")", ",", "-"}
FmtChars == {"%", "h", "c", "C", "[", "]"}

\* a few task-count strings and formats of interest
SomeTasks == {<<"2", ",", "1">>, <<"1", "0">>, <<"2", "(", "x", "2", ")">>,
              <<"2", ",", "z">>, <<"a", "b", "c">>, <<"0">>}
SomeFormats == {DefaultFormat, <<"%", "h">>, <<"%", "h", "%", "[", ":">>,
                <<"%", "c", "%", "[">>}

--------------------------------------------------------------------------
(* main: the option loop *)

\* an ERROR line on stderr
Error(msg) == Append(err, msg)

\* exit(code), as called from main or from print_machinefile
Exit(code) == /\ status' = <<code>>
              /\ pc' = "exit"

MoreOptions == /\ pc = "getopt"
               /\ nopts < MaxOpts
               /\ nopts' = nopts + 1

\* slurm_hostlist_push of the names an expression stands for
Push(names) == hosts' = hosts \o names

\* getenv of the named variable: <<>> when it is not set
Getenv(name) == IF name = "SLURM_JOB_NODELIST" THEN env_nodes ELSE <<>>

\* add_from_env
AddFromEnv(name) ==
  IF Getenv(name) # <<>> THEN Push(Getenv(name)[1]) ELSE UNCHANGED hosts

\* case 'h'
OptHelp ==
  /\ MoreOptions
  /\ out' = out \o <<"usage">>
  /\ Exit(0)
  /\ UNCHANGED <<mode, do_uniq, no_repeats, delimiter, machinefile_format,
                 hostlist, hosts, created, destroyed, env_nodes, env_tasks, tc,
                 has_count, err, results, rendered, entries>>

\* case 'e', case 'c', case 'm'
OptMode ==
  /\ MoreOptions
  /\ \E m \in {"expand", "compress", "machinefile"} : mode' = m
  /\ UNCHANGED <<pc, status, do_uniq, no_repeats, delimiter, machinefile_format,
                 hostlist, hosts, created, destroyed, env_nodes, env_tasks, tc,
                 has_count, out, err, results, rendered, entries>>

\* case 'i': optarg is NULL or empty (<<>>), or names a variable
OptIncludeEnv ==
  /\ MoreOptions
  /\ \E optarg \in {<<>>, <<"SLURM_JOB_NODELIST">>, <<"OTHER">>} :
       IF optarg # <<>>
         THEN /\ AddFromEnv(optarg[1])
              /\ UNCHANGED <<pc, status, err>>
         ELSE /\ err' = Error("invalid variable name")
              /\ Exit(EINVAL)
              /\ UNCHANGED hosts
  /\ UNCHANGED <<mode, do_uniq, no_repeats, delimiter, machinefile_format,
                 hostlist, created, destroyed, env_nodes, env_tasks, tc,
                 has_count, out, results, rendered, entries>>

\* case 'l': optarg is empty, or a file that cannot be opened, or a file
\* holding the expressions of some node list
OptNodelist ==
  /\ MoreOptions
  /\ \E optarg \in {"empty", "unreadable", "file"} :
       CASE optarg = "empty" ->
              /\ err' = Error("invalid file path")
              /\ Exit(EINVAL)
              /\ UNCHANGED hosts
         [] optarg = "unreadable" ->
              /\ err' = Error("unable to open nodelist")
              /\ Exit(EINVAL)
              /\ UNCHANGED hosts
         [] OTHER ->
              /\ \E names \in NodeLists : Push(names)
              /\ UNCHANGED <<pc, status, err>>
  /\ UNCHANGED <<mode, do_uniq, no_repeats, delimiter, machinefile_format,
                 hostlist, created, destroyed, env_nodes, env_tasks, tc,
                 has_count, out, results, rendered, entries>>

\* case 'u'
OptUnique ==
  /\ MoreOptions
  /\ do_uniq' = TRUE
  /\ UNCHANGED <<pc, status, mode, no_repeats, delimiter, machinefile_format,
                 hostlist, hosts, created, destroyed, env_nodes, env_tasks, tc,
                 has_count, out, err, results, rendered, entries>>

\* case 'd': getopt_long hands over an argument (the option requires one)
OptDelimiter ==
  /\ MoreOptions
  /\ \E optarg \in {<<",">>, <<>>} : delimiter' = optarg
  /\ UNCHANGED <<pc, status, mode, do_uniq, no_repeats, machinefile_format,
                 hostlist, hosts, created, destroyed, env_nodes, env_tasks, tc,
                 has_count, out, err, results, rendered, entries>>

\* case 'f'
OptFormat ==
  /\ MoreOptions
  /\ \E optarg \in SomeFormats : machinefile_format' = optarg
  /\ UNCHANGED <<pc, status, mode, do_uniq, no_repeats, delimiter,
                 hostlist, hosts, created, destroyed, env_nodes, env_tasks, tc,
                 has_count, out, err, results, rendered, entries>>

\* case 'n'
OptNoRepeats ==
  /\ MoreOptions
  /\ no_repeats' = TRUE
  /\ UNCHANGED <<pc, status, mode, do_uniq, delimiter, machinefile_format,
                 hostlist, hosts, created, destroyed, env_nodes, env_tasks, tc,
                 has_count, out, err, results, rendered, entries>>

\* getopt_long returns -1
OptEnd ==
  /\ pc = "getopt"
  /\ pc' = "mode"
  /\ UNCHANGED <<status, nopts, mode, do_uniq, no_repeats, delimiter,
                 machinefile_format, hostlist, hosts, created, destroyed,
                 env_nodes, env_tasks, tc, has_count, out, err, results,
                 rendered, entries>>

--------------------------------------------------------------------------
(* main: the expand and compress modes *)

RECURSIVE Uniq(_)
\* slurm_hostlist_uniq: each name once
Uniq(names) ==
  IF names = <<>> THEN <<>>
  ELSE LET front == Uniq(SubSeq(names, 1, Len(names) - 1))
           last == names[Len(names)]
       IN  IF \E i \in 1..Len(front) : front[i] = last
             THEN front ELSE Append(front, last)

RECURSIVE Joined(_, _)
\* the names, delim before each but the first
Joined(names, delim) ==
  IF names = <<>> THEN <<>>
  ELSE IF Len(names) = 1 THEN names[1]
  ELSE names[1] \o delim \o Joined(Tail(names), delim)

\* the else branch of main; args are the names of argv[optind..]
ExpandCompress ==
  /\ pc = "mode"
  /\ mode # "machinefile"
  /\ \E args \in NodeLists :
       LET fromEnv == IF args = <<>> /\ env_nodes # <<>>
                        THEN hosts \o env_nodes[1] ELSE hosts
           all == fromEnv \o args
           list == IF do_uniq THEN Uniq(all) ELSE all
       IN  IF Len(all) > 0
             THEN IF mode = "expand"
                    THEN /\ out' = out \o Joined(list, delimiter) \o <<"\n">>
                         /\ hosts' = <<>>
                    ELSE /\ out' = out \o Joined(list, <<",">>) \o <<"\n">>
                         /\ hosts' = list
             ELSE /\ out' = out
                  /\ hosts' = all
  /\ pc' = "finish"
  /\ UNCHANGED <<status, nopts, mode, do_uniq, no_repeats, delimiter,
                 machinefile_format, hostlist, created, destroyed, env_nodes,
                 env_tasks, tc, has_count, err, results, rendered, entries>>

--------------------------------------------------------------------------
(* main: the machinefile mode *)

\* from slurm_hostlist_destroy(hostlist) to the call of print_machinefile
MachinefileSetup ==
  /\ pc = "mode"
  /\ mode = "machinefile"
  /\ destroyed' = Append(destroyed, hostlist)
  /\ IF env_nodes = <<>> \/ env_nodes = <<<<>>>>
       THEN /\ err' = Error("no SLURM_JOB_NODELIST")
            /\ Exit(EINVAL)
            /\ hostlist' = 0
            /\ hosts' = <<>>
            /\ UNCHANGED <<created, tc>>
       ELSE IF env_tasks = <<>> \/ env_tasks = <<<<>>>>
         THEN /\ err' = Error("no SLURM_TASKS_PER_NODE")
              /\ Exit(EINVAL)
              /\ hostlist' = 0
              /\ hosts' = <<>>
              /\ UNCHANGED <<created, tc>>
         ELSE /\ tc' = TaskCountInit(env_tasks[1])
              /\ created' = created + 1
              /\ hostlist' = created + 1
              /\ hosts' = env_nodes[1]
              /\ pc' = IF Len(env_nodes[1]) > 0 THEN "classify" ELSE "finish"
              /\ UNCHANGED <<status, err>>
  /\ UNCHANGED <<nopts, mode, do_uniq, no_repeats, delimiter,
                 machinefile_format, env_nodes, env_tasks, has_count, out,
                 results, rendered, entries>>

\* print_machinefile: the computation of has_count
Classify ==
  /\ pc = "classify"
  /\ has_count' = HasCount(machinefile_format)
  /\ pc' = "loop"
  /\ UNCHANGED <<status, nopts, mode, do_uniq, no_repeats, delimiter,
                 machinefile_format, hostlist, hosts, created, destroyed,
                 env_nodes, env_tasks, tc, out, err, results, rendered, entries>>

\* a mutation of Stops: a task count of 0 does not end the loop
StopsBelowZero(task_count) == task_count < 0

\* if ( task_count <= 0 ) break
Stops(task_count) == task_count <= 0

\* what the call task_count_next(tc) of the loop returns
NextCount == TaskCountNext(tc)

\* the record of one call, and the ERROR line it wrote if any
Returned(r) == [ret |-> r.ret, kind |-> r.kind, off |-> r.off]

IsParseError(kind) ==
  kind \in {"InvalidInteger", "InvalidRepeat", "UnexpectedCharacter"}

\* task_count_next(tc) as the loop calls it
CallNext ==
  /\ tc' = NextCount.tc
  /\ results' = Append(results, Returned(NextCount))

\* one iteration: slurm_hostlist_shift returns NULL
LoopNoHost ==
  /\ pc = "loop"
  /\ hosts = <<>>
  /\ pc' = "finish"
  /\ UNCHANGED <<status, nopts, mode, do_uniq, no_repeats, delimiter,
                 machinefile_format, hostlist, hosts, created, destroyed,
                 env_nodes, env_tasks, tc, has_count, out, err, results,
                 rendered, entries>>

\* one iteration: task_count <= 0
LoopNoCount ==
  /\ pc = "loop"
  /\ hosts # <<>>
  /\ Stops(NextCount.ret)
  /\ hosts' = Tail(hosts)
  /\ CallNext
  /\ err' = IF IsParseError(NextCount.kind) THEN Error(NextCount.kind) ELSE err
  /\ pc' = "finish"
  /\ UNCHANGED <<status, nopts, mode, do_uniq, no_repeats, delimiter,
                 machinefile_format, hostlist, created, destroyed, env_nodes,
                 env_tasks, has_count, out, rendered, entries>>

\* the rendering of the host at the head of the list in the
\* has_count || no_repeats branch
SingleOfHead ==
  RenderSingle(machinefile_format, 0, Head(hosts), NextCount.ret)

\* one iteration of the has_count || no_repeats branch
LoopSingle ==
  /\ pc = "loop"
  /\ hosts # <<>>
  /\ ~Stops(NextCount.ret)
  /\ has_count \/ no_repeats
  /\ SingleOfHead.ok
  /\ hosts' = Tail(hosts)
  /\ CallNext
  /\ rendered' = Append(rendered, <<Head(hosts), NextCount.ret>>)
  /\ out' = out \o SingleOfHead.out \o <<"\n">>
  /\ UNCHANGED <<pc, status, nopts, mode, do_uniq, no_repeats, delimiter,
                 machinefile_format, hostlist, created, destroyed, env_nodes,
                 env_tasks, has_count, err, entries>>

\* one iteration of the has_count || no_repeats branch that ends in
\* exit(EINVAL): stdout keeps what was written before
LoopInvalidDelimiter ==
  /\ pc = "loop"
  /\ hosts # <<>>
  /\ ~Stops(NextCount.ret)
  /\ has_count \/ no_repeats
  /\ ~SingleOfHead.ok
  /\ hosts' = Tail(hosts)
  /\ CallNext
  /\ rendered' = Append(rendered, <<Head(hosts), NextCount.ret>>)
  /\ out' = out \o SingleOfHead.out
  /\ err' = Error("invalid delimiter")
  /\ Exit(EINVAL)
  /\ UNCHANGED <<nopts, mode, do_uniq, no_repeats, delimiter,
                 machinefile_format, hostlist, created, destroyed, env_nodes,
                 env_tasks, has_count, entries>>

\* one iteration of the repeat branch
LoopRepeat ==
  /\ pc = "loop"
  /\ hosts # <<>>
  /\ ~Stops(NextCount.ret)
  /\ ~(has_count \/ no_repeats)
  /\ hosts' = Tail(hosts)
  /\ CallNext
  /\ rendered' = Append(rendered, <<Head(hosts), NextCount.ret>>)
  /\ out' = out \o Times(RenderRepeat(machinefile_format, 0, Head(hosts))
                           \o <<"\n">>, NextCount.ret)
  /\ UNCHANGED <<pc, status, nopts, mode, do_uniq, no_repeats, delimiter,
                 machinefile_format, hostlist, created, destroyed, env_nodes,
                 env_tasks, has_count, err, entries>>

\* the end of main: slurm_hostlist_destroy(hostlist); return 0
Finish ==
  /\ pc = "finish"
  /\ destroyed' = Append(destroyed, hostlist)
  /\ Exit(0)
  /\ UNCHANGED <<nopts, mode, do_uniq, no_repeats, delimiter,
                 machinefile_format, hostlist, hosts, created, env_nodes,
                 env_tasks, tc, has_count, out, err, results, rendered, entries>>

--------------------------------------------------------------------------
(* The program *)

Locals ==
  /\ status = <<>>
  /\ nopts = 0
  /\ do_uniq = FALSE
  /\ delimiter = DefaultDelimiter
  /\ has_count = FALSE
  /\ out = <<>>
  /\ err = <<>>
  /\ results = <<>>
  /\ rendered = <<>>

\* main after its declarations, in some environment
Init ==
  /\ Locals
  /\ pc = "getopt"
  /\ mode = "expand"
  /\ no_repeats = FALSE
  /\ machinefile_format = DefaultFormat
  /\ hostlist = 1
  /\ hosts = <<>>
  /\ created = 1
  /\ destroyed = <<>>
  /\ env_nodes \in {<<>>} \cup {<<l>> : l \in NodeLists}
  /\ env_tasks \in {<<>>, <<<<>>>>} \cup {<<t>> : t \in SomeTasks}
  /\ tc = TaskCountInit(<<>>)
  /\ entries = <<>>

PrintMachinefile ==
  \/ Classify
  \/ LoopNoHost
  \/ LoopNoCount
  \/ LoopSingle
  \/ LoopInvalidDelimiter
  \/ LoopRepeat

Next ==
  \/ OptHelp
  \/ OptMode
  \/ OptIncludeEnv
  \/ OptNodelist
  \/ OptUnique
  \/ OptDelimiter
  \/ OptFormat
  \/ OptNoRepeats
  \/ OptEnd
  \/ ExpandCompress
  \/ MachinefileSetup
  \/ PrintMachinefile
  \/ Finish

Spec == Init /\ [][Next]_vars

--------------------------------------------------------------------------
(* print_machinefile called with arbitrary formats *)

\* main at the call of print_machinefile, in machinefile mode
AtPrintMachinefile ==
  /\ Locals
  /\ pc = "classify"
  /\ mode = "machinefile"
  /\ hostlist = 2
  /\ created = 2
  /\ destroyed = <<1>>
  /\ env_nodes = <<hosts>>
  /\ tc = TaskCountInit(env_tasks[1])
  /\ entries = <<>>

InitFormat ==
  /\ no_repeats \in BOOLEAN
  /\ machinefile_format \in Strings(FmtChars, MaxFmtLen)
  /\ hosts = HostNames(2)
  /\ env_tasks \in {<<t>> : t \in {<<"2", ",", "1">>, <<"1", "0">>}}
  /\ AtPrintMachinefile

NextMachinefile ==
  \/ PrintMachinefile
  \/ Finish

SpecFormat == InitFormat /\ [][NextMachinefile]_vars

(* print_machinefile called with arbitrary task-count strings *)

\* the task-count strings of one-digit numbers, which keep the number of
\* lines of the repeat branch small
LoopTasks ==
  {t \in Strings(LoopChars, MaxLoopLen) \ {<<>>} :
     \A i \in 1..(Len(t) - 1) : ~(IsDigit(t[i]) /\ IsDigit(t[i + 1]))}

InitLoop ==
  /\ \E c \in {<<DefaultFormat, FALSE>>, <<<<"%", "h">>, FALSE>>,
               <<<<"%", "h", "%", "[">>, TRUE>>} :
       /\ machinefile_format = c[1]
       /\ no_repeats = c[2]
  /\ hosts \in {HostNames(n) : n \in 1..MaxHosts}
  /\ env_tasks \in {<<t>> : t \in LoopTasks}
  /\ AtPrintMachinefile

SpecLoop == InitLoop /\ [][NextMachinefile]_vars

--------------------------------------------------------------------------
(* The decoder alone: task_count_init, then task_count_next time and again *)

\* the calls so far that returned no task count
Failed == {i \in 1..Len(results) : results[i].kind # NoError}

TaskCountNextCall ==
  /\ pc = "decoder"
  /\ Cardinality(Failed) < MaxAfter
  /\ CallNext
  /\ err' = IF IsParseError(NextCount.kind) THEN Error(NextCount.kind) ELSE err
  /\ UNCHANGED <<pc, status, nopts, mode, do_uniq, no_repeats, delimiter,
                 machinefile_format, hostlist, hosts, created, destroyed,
                 env_nodes, env_tasks, has_count, out, rendered, entries>>

AtTaskCountInit ==
  /\ Locals
  /\ pc = "decoder"
  /\ mode = "machinefile"
  /\ no_repeats = FALSE
  /\ machinefile_format = DefaultFormat
  /\ hostlist = 0
  /\ hosts = <<>>
  /\ created = 1
  /\ destroyed = <<1>>
  /\ env_nodes = <<HostNames(1)>>
  /\ tc = TaskCountInit(env_tasks[1])

InitDecoder ==
  /\ env_tasks \in {<<t>> : t \in Strings(SpecChars, MaxSpecLen) \ {<<>>}}
  /\ entries = <<>>
  /\ AtTaskCountInit

NextDecoder == TaskCountNextCall

SpecDecoder == InitDecoder /\ [][NextDecoder]_vars

(* The decoder alone, on the well-formed strings *)

WFValues == {0, 1, 4, 10}

\* a run-length entry, and whether it is written INT rather than INT(xN)
Entries ==
  {e \in [value : WFValues, repeat : 1..MaxRepeat, bare : BOOLEAN] :
     e.bare => e.repeat = 1}

\* the text of an entry
EntryText(e) ==
  IF e.bare THEN Dec(e.value)
            ELSE Dec(e.value) \o <<"(", "x">> \o Dec(e.repeat) \o <<")">>

RECURSIVE SpecText(_)
\* the text of a task-count string: its entries, "," between them
SpecText(es) ==
  IF Len(es) = 1 THEN EntryText(es[1])
  ELSE EntryText(es[1]) \o <<",">> \o SpecText(Tail(es))

InitWellFormed ==
  /\ entries \in UNION {[1..k -> Entries] : k \in 1..MaxEntries}
  /\ env_tasks = <<SpecText(entries)>>
  /\ AtTaskCountInit

SpecWellFormed == InitWellFormed /\ [][NextDecoder]_vars

--------------------------------------------------------------------------
(* The decoder on well-formed strings *)

RECURSIVE Expansion(_)
\* the task counts the entries stand for: each value, repeat times
Expansion(es) ==
  IF es = <<>> THEN <<>>
  ELSE [i \in 1..es[1].repeat |-> es[1].value] \o Expansion(Tail(es))

\* C1: for a well-formed task-count string, the successive task_count_next
\* calls return each entry's value, repeat times (once for a bare INT), in
\* the order of the entries, and after that they return Exhausted.
C1_DecodesWellFormed ==
  entries # <<>> =>
    \A i \in 1..Len(results) :
      IF i <= Len(Expansion(entries))
        THEN /\ results[i].kind = NoError
             /\ results[i].ret = Expansion(entries)[i]
        ELSE /\ results[i].kind = "Exhausted"
             /\ results[i].ret = -1

\* "4(x2),1" has been decoded to 4, 4, 1 and then Exhausted
C1_Witness ==
  /\ env_tasks = <<<<"4", "(", "x", "2", ")", ",", "1">>>>
  /\ Len(entries) = 2
  /\ entries[2].bare
  /\ Len(results) = 4
  /\ [i \in 1..3 |-> results[i].ret] = <<4, 4, 1>>
  /\ results[4].kind = "Exhausted"

--------------------------------------------------------------------------
(* The loop of print_machinefile *)

RECURSIVE Decoded(_, _)
\* d1, .., dn: what n successive task_count_next calls return, from t on
Decoded(t, n) ==
  IF n = 0 THEN <<>>
  ELSE <<TaskCountNext(t).ret>> \o Decoded(TaskCountNext(t).tc, n - 1)

\* the hosts h1, .., hn and the decoder of this run, as main hands them over
AllHosts == env_nodes[1]
AllCounts == Decoded(TaskCountInit(env_tasks[1]), Len(AllHosts))

\* k: the largest index with k <= n and d1, .., dk all positive
Kept ==
  CHOOSE k \in 0..Len(AllHosts) :
    /\ \A i \in 1..k : AllCounts[i] > 0
    /\ k < Len(AllHosts) => AllCounts[k + 1] <= 0

\* the pairs (h1, d1), .., (hk, dk)
KeptPairs == [i \in 1..Kept |-> <<AllHosts[i], AllCounts[i]>>]

\* what print_machinefile writes for one pair
PairText(pair) ==
  IF has_count \/ no_repeats
    THEN LET r == RenderSingle(machinefile_format, 0, pair[1], pair[2])
         IN  IF r.ok THEN r.out \o <<"\n">> ELSE r.out
    ELSE Times(RenderRepeat(machinefile_format, 0, pair[1]) \o <<"\n">>, pair[2])

RECURSIVE PairsText(_)
PairsText(pairs) ==
  IF pairs = <<>> THEN <<>> ELSE PairText(pairs[1]) \o PairsText(Tail(pairs))

IsPrefix(a, b) == Len(a) <= Len(b) /\ a = SubSeq(b, 1, Len(a))

\* C3: print_machinefile renders the pairs (h1, d1), .., (hk, dk) in that
\* order, k the largest index with k <= n and d1, .., dk positive: at every
\* moment the pairs rendered are the first of these and stdout holds their
\* text and nothing else, and when print_machinefile returns all k are
\* rendered, whatever hosts remain.
C3_RendersKeptPairs ==
  pc \in {"loop", "finish", "exit"} =>
    /\ IsPrefix(rendered, KeptPairs)
    /\ out = PairsText(rendered)
    /\ (pc = "finish" \/ status = <<0>>) => rendered = KeptPairs

\* three hosts, the second count is 0: one pair rendered, a host remains
C3_Witness ==
  /\ pc = "finish"
  /\ Len(AllHosts) = 3
  /\ Len(rendered) = 1
  /\ results[Len(results)].kind = NoError
  /\ results[Len(results)].ret = 0
  /\ hosts # <<>>
  /\ out # <<>>

--------------------------------------------------------------------------
(* The tokens of a format, as the usage text and the design describe them *)

Token(tag, text) == [tag |-> tag, text |-> text]

\* the offset of the first "]" at or after p, -1 if there is none
ClosingBracket(f, p) ==
  IF \E i \in p..(Len(f) - 1) : At(f, i) = "]"
    THEN CHOOSE i \in p..(Len(f) - 1) :
           At(f, i) = "]" /\ \A j \in p..(i - 1) : At(f, j) # "]"
    ELSE -1

RECURSIVE Tokens(_, _, _)
\* The format from offset p on, read left to right.  A "%[" that does not
\* begin a delimited count token is, if whole, one token that takes the
\* text up to the "]" and the character after it, and ends the reading where
\* no "]" follows; if not whole, it is a "%" and one more character like
\* any other.
Tokens(f, p, whole) ==
  LET c == At(f, p)
      d == At(f, p + 1)
      q == ClosingBracket(f, p + 2)
      delim == SubSeq(f, p + 3, q)
  IN  IF c = NUL THEN <<>>
      ELSE IF c # "%" THEN <<Token("Literal", <<c>>)>> \o Tokens(f, p + 1, whole)
      ELSE IF d = NUL THEN <<Token("Skip", <<>>)>>
      ELSE IF d = "%" THEN <<Token("Percent", <<>>)>> \o Tokens(f, p + 2, whole)
      ELSE IF d = "h" THEN <<Token("Host", <<>>)>> \o Tokens(f, p + 2, whole)
      ELSE IF d = "c" THEN <<Token("Count", <<>>)>> \o Tokens(f, p + 2, whole)
      ELSE IF d = "C" THEN <<Token("CountIfPlural", <<>>)>> \o Tokens(f, p + 2, whole)
      ELSE IF d = "[" /\ q # -1 /\ At(f, q + 1) = "c"
        THEN <<Token("Count", delim)>> \o Tokens(f, q + 2, whole)
      ELSE IF d = "[" /\ q # -1 /\ At(f, q + 1) = "C"
        THEN <<Token("CountIfPlural", delim)>> \o Tokens(f, q + 2, whole)
      ELSE IF d = "[" /\ whole /\ q # -1
        THEN <<Token("Skip", <<>>)>> \o Tokens(f, q + 2, whole)
      ELSE IF d = "[" /\ whole
        THEN <<Token("Unclosed", <<>>)>>
      ELSE <<Token("Skip", <<>>)>> \o Tokens(f, p + 2, whole)

\* what one token stands for, for a host and its task count
TokenText(t, host, n) ==
  CASE t.tag = "Literal" -> t.text
    [] t.tag = "Percent" -> <<"%">>
    [] t.tag = "Host" -> host
    [] t.tag = "Count" -> t.text \o Dec(n)
    [] t.tag = "CountIfPlural" -> IF n > 1 THEN t.text \o Dec(n) ELSE <<>>
    [] OTHER -> <<>>

RECURSIVE TokensText(_, _, _)
TokensText(ts, host, n) ==
  IF ts = <<>> THEN <<>>
  ELSE TokenText(ts[1], host, n) \o TokensText(Tail(ts), host, n)

\* the line of a host: the substitution, left to right, and a newline
Line(f, host, n, whole) == TokensText(Tokens(f, 0, whole), host, n) \o <<"\n">>

RECURSIVE Lines(_, _, _)
\* the lines of the pairs, one each
Lines(f, pairs, whole) ==
  IF pairs = <<>> THEN <<>>
  ELSE Line(f, pairs[1][1], pairs[1][2], whole) \o Lines(f, Tail(pairs), whole)

RECURSIVE PairsRepeated(_, _, _)
\* for each pair the line of %% and %h, n times if repeat, else once
PairsRepeated(f, pairs, repeat) ==
  IF pairs = <<>> THEN <<>>
  ELSE Times(Line(f, pairs[1][1], 1, FALSE), IF repeat THEN pairs[1][2] ELSE 1)
         \o PairsRepeated(f, Tail(pairs), repeat)

HasTag(f, tag) ==
  \E i \in 1..Len(Tokens(f, 0, TRUE)) : Tokens(f, 0, TRUE)[i].tag = tag

\* a format with a "%[" token that no "]" closes
Malformed(f) == HasTag(f, "Unclosed")

\* a format with a count-sensitive token
HasCountToken(f) == HasTag(f, "Count") \/ HasTag(f, "CountIfPlural")

Classified == pc \in {"loop", "finish", "exit"}

SinglePass == Classified /\ (has_count \/ no_repeats)

\* C4, as claimed: in single-pass mode every pair with a task count >= 1
\* gives one line, the substitution of %%, %h, %c, %C, %[<delim>]c and
\* %[<delim>]C, where any other pair of "%" and a character (so also a "%["
\* that begins no delimited count token) and a last lone "%" give nothing
\* and every other character is copied.  (Stated for the runs that the
\* invalid-delimiter exit has not ended.)
C4_Original ==
  SinglePass /\ status # <<EINVAL>> =>
    out = Lines(machinefile_format, rendered, FALSE)

\* C4, amended: the same, where a "%[<delim>]" followed by a character other
\* than c and C gives nothing and takes that character with it (and gives
\* nothing at the end of the format), for the formats whose every "%[" token
\* is closed by a "]".
C4_SinglePassLine ==
  SinglePass /\ ~Malformed(machinefile_format) =>
    out = Lines(machinefile_format, rendered, TRUE)

\* "%[h]C" for the counts 2 and 1: the lines "h2" and ""
C4_Witness ==
  /\ pc = "finish"
  /\ has_count
  /\ machinefile_format = <<"%", "[", "h", "]", "C">>
  /\ rendered = <<<<HostNames(2)[1], 2>>, <<HostNames(2)[2], 1>>>>
  /\ out = <<"h", "2", "\n", "\n">>

\* C5: a format with an unclosed "%[" token is fatal in every machine-file
\* run, found when the format is classified and before any host is
\* rendered: nothing is written to stdout and the process ends with EINVAL.
C5_MalformedIsFatal ==
  Classified /\ Malformed(machinefile_format) =>
    /\ out = <<>>
    /\ pc = "exit" => status = <<EINVAL>>

\* C6: for a format classified as without count token, repeat mode writes
\* for each pair n times the line L of the substitution of %% and %h alone,
\* and --no-repeats writes that line L once.  (Stated for the runs that the
\* invalid-delimiter exit has not ended.)
C6_NoRepeatsSameLine ==
  Classified /\ ~has_count /\ status # <<EINVAL>> =>
    out = PairsRepeated(machinefile_format, rendered, ~no_repeats)

\* C9: has_count is true exactly when the format, read left to right as
\* the rendering reads it, has a count-sensitive token.
C9_HasCountIffToken ==
  Classified => (has_count <=> HasCountToken(machinefile_format))

--------------------------------------------------------------------------
(* The exit status and the handles *)

\* a parse error was reported: by the decoder, or for the format
ParseErrorReported ==
  \/ \E i \in 1..Len(results) : IsParseError(results[i].kind)
  \/ \E i \in 1..Len(err) : err[i] = "invalid delimiter"

\* C2: in machinefile mode the process exits with EINVAL whenever a parse
\* error occurred, in the task-count string or in the format, and with 0
\* only when none occurred.
C2_ParseErrorExitsEINVAL ==
  pc = "exit" /\ mode = "machinefile" /\ ParseErrorReported =>
    status = <<EINVAL>>

\* how often slurm_hostlist_destroy was called on the handle h
Releases(h) == Cardinality({i \in 1..Len(destroyed) : destroyed[i] = h})

\* C10: when the process has ended, on whichever path, every handle created
\* has been destroyed, and no handle is ever destroyed twice.
C10_HandlesReleased ==
  /\ \A h \in 1..created : Releases(h) <= 1
  /\ pc = "exit" => \A h \in 1..created : Releases(h) = 1

--------------------------------------------------------------------------
(* The offsets and the state of the decoder after a failure *)

Unsigned(s) ==
  \A i \in 1..Len(s) : ~IsSpace(s[i]) /\ s[i] \notin {"-", "+"}

RECURSIVE Deviation(_, _, _)
\* The offset of the first character of s, from p on, that the grammar
\* entry (',' entry)*, entry = INT | INT '(x' INT ')', does not allow (the
\* first digit of a repeat count that is not positive is not allowed);
\* Len(s) if the string ends where it may not, -1 if there is none.  st is
\* what the grammar has read last.
Deviation(s, p, st) ==
  LET c == At(s, p)
      Number == ScanDigits(s, p, 0)
  IN  CASE st = "entry" ->
             IF IsDigit(c) THEN Deviation(s, Number.end, "value") ELSE p
        [] st = "value" ->
             IF c = "(" THEN Deviation(s, p + 1, "(")
             ELSE IF c = "," THEN Deviation(s, p + 1, "entry")
             ELSE IF c = NUL THEN -1 ELSE p
        [] st = "(" ->
             IF c = "x" THEN Deviation(s, p + 1, "x") ELSE p
        [] st = "x" ->
             IF IsDigit(c) /\ Number.val > 0
               THEN Deviation(s, Number.end, "repeat") ELSE p
        [] st = "repeat" ->
             IF c = ")" THEN Deviation(s, p + 1, ")") ELSE p
        [] OTHER ->
             IF c = "," THEN Deviation(s, p + 1, "entry")
             ELSE IF c = NUL THEN -1 ELSE p

\* C7: whenever task_count_next fails with a parse error, the offset it
\* reports is the index of the first character of the string that deviates
\* from the grammar.  (Stated for the strings without a sign or white space,
\* which strtol reads as part of a number.)
C7_OffsetIsFirstDeviation ==
  \A i \in 1..Len(results) :
    IsParseError(results[i].kind) /\ Unsigned(tc.task_count_str) =>
      results[i].off = Deviation(tc.task_count_str, 0, "entry")

\* C8: after a call that returned Exhausted or a parse error the remaining
\* repeat count is 0, and once a call has returned Exhausted or a parse
\* error no later call returns a task count.
C8_NoValueAfterFailure ==
  /\ (results # <<>> /\ results[Len(results)].kind # NoError) => tc.count = 0
  /\ \A i, j \in 1..Len(results) :
       i < j /\ results[i].kind # NoError => results[j].kind # NoError

====
